---------------------------- MODULE Spec2Model ----------------------------
(***************************************************************************)
(* A model of hypercore-protocol-rs: the length-delimited framing of       *)
(* src/src/noise.rs (send / recv / with_delimiter) and the protocol engine *)
(* of src/src/protocol.rs (Protocol, ProtocolStream).                      *)
(*                                                                         *)
(* The specifications of the module:                                       *)
(*   SpecFrame      one byte stream, a writer (send, raw bytes, close) and *)
(*                  the reader's recv;                                     *)
(*   Spec           two Protocol instances joined by two reliable frame    *)
(*                  streams, one per direction;                            *)
(*   LiveSpec       an established session whose tasks keep running;       *)
(*   ChanSpec, ReopenSpec, StreamSpec, CloseSpec                           *)
(*                  sessions whose users push messages on channel handles, *)
(*                  drop handles, open keys again, open through the        *)
(*                  control queue, send Close;                             *)
(*   TimerSpec      the keepalive timer against a clock;                   *)
(*   HandshakeSpec  the handshake on its own.                              *)
(***************************************************************************)
EXTENDS Integers, Sequences, FiniteSets, TLC

VARIABLES
    \* ---- framing (noise.rs) ----
    wire,       \* bytes written to the stream and not yet consumed by recv
    wclosed,    \* the writer has closed the stream (reads past the end fail)
    res,        \* what the last completed recv returned
    nwrites,    \* number of writer operations so far
    nrecvs,     \* number of recv calls that returned
    shake,      \* shake[p]: the locals of p's task running handshake()
    hnet,       \* hnet[p]: messages sent to p's handshake() and not received
    \* ---- protocol engine (protocol.rs) ----
    proto,      \* proto[p]: the fields of peer p's Protocol
    wrapped,    \* wrapped[p]: p's Protocol was moved into a ProtocolStream
    pc,         \* pc[p]: where p's task stands in Protocol::next
    net,        \* net[p]: what was written to p's reader and not read yet
    ret,        \* ret[p]: what p's last call of next() returned
    seen,       \* seen[p]: discovery keys of the Channel events next() returned
    reinits,    \* reinits[p]: calls of init() on p after it was initialised
    opened,     \* opened[p]: keys p's user passed to open, in call order
    held,       \* held[p]: the handles (by number) next() has given p's user
    npush,      \* npush[p]: application messages p's user has pushed so far
    wrote,      \* wrote[p]: channel ids of the Opens p has written so far
    plain,      \* plain[p]: unread frames of net[p], from its head, that
                \*   were written before the writer's upgrade to the cipher
    timer,      \* timer[p]: ticks left on p's keepalive Delay
    quiet       \* quiet[p]: ticks since p last read a frame (or since the start)

fvars == <<wire, wclosed, res, nwrites, nrecvs>>
nvars == <<shake, hnet>>
hvars == <<held, npush>>
tvars == <<timer, quiet>>
pvars == <<proto, wrapped, pc, net, ret, seen, reinits, opened, hvars, wrote,
           plain,
           tvars>>
vars == <<fvars, nvars, pvars>>

(***************************************************************************)
(* Byte strings.  A Vec<u8> / &[u8] is kept run-length encoded: a sequence *)
(* of runs <<v, n>>, n >= 1 consecutive bytes of value v, adjacent runs    *)
(* holding different values.  The encoding is canonical, so two byte       *)
(* strings are equal iff their encodings are equal.                        *)
(***************************************************************************)
RECURSIVE BLen(_)
BLen(s) == IF s = <<>> THEN 0 ELSE s[1][2] + BLen(Tail(s))

BCat(s, t) ==
    IF s = <<>> THEN t
    ELSE IF t = <<>> THEN s
    ELSE IF s[Len(s)][1] = t[1][1]
         THEN SubSeq(s, 1, Len(s) - 1)
              \o << <<t[1][1], s[Len(s)][2] + t[1][2]>> >>
              \o Tail(t)
         ELSE s \o t

RECURSIVE BTake(_, _)
BTake(s, n) ==
    IF n = 0 \/ s = <<>> THEN <<>>
    ELSE IF s[1][2] <= n THEN <<s[1]>> \o BTake(Tail(s), n - s[1][2])
    ELSE << <<s[1][1], n>> >>

RECURSIVE BDrop(_, _)
BDrop(s, n) ==
    IF n = 0 \/ s = <<>> THEN s
    ELSE IF s[1][2] <= n THEN BDrop(Tail(s), n - s[1][2])
    ELSE << <<s[1][1], s[1][2] - n>> >> \o Tail(s)

\* vec![v; n]
Rep(v, n) == IF n = 0 THEN <<>> ELSE << <<v, n>> >>

\* The byte string holding the bytes of the plain sequence bs, in order.
RECURSIVE FromBytes(_)
FromBytes(bs) ==
    IF bs = <<>> THEN <<>> ELSE BCat(Rep(bs[1], 1), FromBytes(Tail(bs)))

IsBPrefix(p, s) == BLen(p) <= BLen(s) /\ BTake(s, BLen(p)) = p

(***************************************************************************)
(* noise.rs                                                                *)
(***************************************************************************)
MAX_MESSAGE_SIZE == 65535

\* varinteger::encode: unsigned LEB128, low 7 bits first, bit 7 = "more".
RECURSIVE varint_encode(_)
varint_encode(n) ==
    IF n < 128 THEN <<n>>
    ELSE <<(n % 128) + 128>> \o varint_encode(n \div 128)

\* varinteger::length
varint_length(n) == Len(varint_encode(n))

\* with_delimiter: a buffer of len + varint_len bytes, the varint of the
\* length in front, the data copied behind it.
with_delimiter(data) ==
    BCat(FromBytes(varint_encode(BLen(data))), data)

(***************************************************************************)
(* recv, lines 174-194: the loop that reads the length prefix one byte at  *)
(* a time.  varint and factor are the loop's variables, w the unread       *)
(* bytes.  The result says how the loop ended: "len" (break, line 188),    *)
(* "toolong" (line 191) or "more" (read_exact found no byte).              *)
(* A zero byte `continue`s without touching varint or factor; a run of     *)
(* zero bytes is as many iterations doing just that, taken here at once.   *)
(***************************************************************************)
\* recv_header with the factor stepped by 256 instead of 128.
RECURSIVE recv_header_factor256(_, _, _)
recv_header_factor256(w, varint, factor) ==
    IF w = <<>> THEN [st |-> "more", len |-> 0, rest |-> <<>>]
    ELSE LET byte == w[1][1] IN
         IF byte = 0 THEN recv_header_factor256(Tail(w), varint, factor)
         ELSE LET v  == varint + (byte % 128) * factor
                  w1 == BDrop(w, 1)
              IN  IF byte < 128 THEN [st |-> "len", len |-> v, rest |-> w1]
                  ELSE IF v > MAX_MESSAGE_SIZE
                       THEN [st |-> "toolong", len |-> v, rest |-> w1]
                       ELSE recv_header_factor256(w1, v, factor * 256)

RECURSIVE recv_header(_, _, _)
recv_header(w, varint, factor) ==
    IF w = <<>> THEN [st |-> "more", len |-> 0, rest |-> <<>>]
    ELSE LET byte == w[1][1] IN
         IF byte = 0 THEN recv_header(Tail(w), varint, factor)
         ELSE LET v  == varint + (byte % 128) * factor
                  w1 == BDrop(w, 1)
              IN  IF byte < 128 THEN [st |-> "len", len |-> v, rest |-> w1]
                  ELSE IF v > MAX_MESSAGE_SIZE
                       THEN [st |-> "toolong", len |-> v, rest |-> w1]
                       ELSE recv_header(w1, v, factor * 128)

(***************************************************************************)
(* recv, lines 170-203.  w: the unread bytes; eof: the writer has closed.  *)
(* A read_exact that finds too few bytes fails with UnexpectedEof when the *)
(* stream has ended and otherwise keeps waiting ("pending": recv has not   *)
(* returned).  rest: the bytes left unread when recv returns.              *)
(***************************************************************************)
recv(w, eof) ==
    LET h     == recv_header(w, 0, 1)
        short == [st   |-> IF eof THEN "err_eof" ELSE "pending",
                  msg  |-> <<>>, rest |-> <<>>]
    IN  CASE h.st = "toolong" ->
                 [st |-> "err_toolong", msg |-> <<>>, rest |-> h.rest]
          [] h.st = "more" -> short
          [] h.st = "len" ->
                 IF BLen(h.rest) >= h.len
                 THEN [st   |-> "ok",
                       msg  |-> BTake(h.rest, h.len),
                       rest |-> BDrop(h.rest, h.len)]
                 ELSE short

(***************************************************************************)
(* The framing state machine.                                              *)
(***************************************************************************)
MaxWrites == 3
MaxRecvs == 3

\* Payload lengths around the one-, two- and three-byte length prefixes and
\* around MAX_MESSAGE_SIZE.
DataLens == {0, 1, 127, 128, 16384, 65535, 65536, 70000}
FillBytes == {1, 200}
Payloads == {Rep(v, n) : v \in FillBytes, n \in DataLens}
            \cup {BCat(Rep(0, 1), Rep(9, 2))}

\* Single bytes a peer may put on the stream outside any frame: the
\* keepalive ping (0), and bytes that read as a final or as a continuation
\* byte of a length prefix.
RawBytes == {0, 1, 127, 129, 255}

NoResult == [st |-> "none", msg |-> <<>>]

(***************************************************************************)
(* handshake(stream, is_initiator), lines 39-137: one task per end of the  *)
(* stream.  snow's HandshakeState for Noise_XX is the number n of messages *)
(* of the pattern it has written or read: the pattern has three, written   *)
(* by the initiator, the responder, the initiator.                         *)
(***************************************************************************)
Nonces == {1, 2}     \* values generate_nonce (lines 139-142) may return
NoNonce == 0

Flight(n, payload) == [t |-> "flight", n |-> n, payload |-> payload]
Transport(k) == [t |-> "transport", k |-> k]

\* It is this side's turn to write message n + 1 of the pattern.
noise_writes(is_initiator, n) == n < 3 /\ (is_initiator <=> n % 2 = 0)

\* noise.write_message(&nonce_msg, &mut buf_tx)
write_message(is_initiator, n, payload) ==
    IF noise_writes(is_initiator, n)
    THEN [ok |-> TRUE, n |-> n + 1, msg |-> Flight(n + 1, payload)]
    ELSE [ok |-> FALSE, n |-> n, msg |-> Flight(0, NoNonce)]

\* noise.read_message(&msg, &mut buf_rx)
read_message(is_initiator, n, msg) ==
    IF n < 3 /\ ~noise_writes(is_initiator, n)
       /\ msg.t = "flight" /\ msg.n = n + 1
    THEN [ok |-> TRUE, n |-> n + 1, payload |-> msg.payload]
    ELSE [ok |-> FALSE, n |-> n, payload |-> NoNonce]

\* noise.is_handshake_finished()
is_handshake_finished(n) == n = 3

\* The locals of a task before handshake() runs.  at: where the task is;
\* sent, reads: the flights it has written and read, in order; got: the
\* transport messages it has read.
NewTask == [at |-> "new", noise |-> 0, local_nonce |-> NoNonce,
            remote_nonce |-> NoNonce, sent |-> <<>>, reads |-> <<>>,
            got |-> 0]

\* Lines 61-67: the initiator writes the first flight; then the loop.
handshake_first(st, is_initiator, nonce) ==
    LET st1 == [st EXCEPT !.local_nonce = nonce, !.at = "loop"] IN
    IF ~is_initiator THEN [st |-> st1, out |-> <<>>]
    ELSE LET wr == write_message(TRUE, st.noise, nonce) IN
         IF ~wr.ok THEN [st |-> [st1 EXCEPT !.at = "panicked"], out |-> <<>>]
         ELSE [st  |-> [st1 EXCEPT !.noise = wr.n,
                                   !.sent = Append(@, wr.msg.n)],
               out |-> <<wr.msg>>]

\* One turn of the loop that does not look at is_handshake_finished after
\* writing.
handshake_turn_one_check(st, is_initiator, msg) ==
    LET rd == read_message(is_initiator, st.noise, msg) IN
    IF ~rd.ok THEN [st |-> [st EXCEPT !.at = "panicked"], out |-> <<>>]
    ELSE LET st1 == [st EXCEPT !.noise = rd.n, !.remote_nonce = rd.payload,
                               !.reads = Append(@, msg.n)]
         IN  IF is_handshake_finished(rd.n)
             THEN [st |-> [st1 EXCEPT !.at = "transport"], out |-> <<>>]
             ELSE LET wr == write_message(is_initiator, rd.n,
                                          st.local_nonce) IN
                  IF ~wr.ok
                  THEN [st |-> [st1 EXCEPT !.at = "panicked"], out |-> <<>>]
                  ELSE [st  |-> [st1 EXCEPT !.noise = wr.n,
                                            !.sent = Append(@, wr.msg.n)],
                        out |-> <<wr.msg>>]

\* One turn of the loop, lines 71-92, on the message recv returned: read
\* it, leave the loop if the handshake is finished, write the answer,
\* leave the loop if the handshake is finished.  A snow error panics.
handshake_turn(st, is_initiator, msg) ==
    LET rd == read_message(is_initiator, st.noise, msg) IN
    IF ~rd.ok THEN [st |-> [st EXCEPT !.at = "panicked"], out |-> <<>>]
    ELSE LET st1 == [st EXCEPT !.noise = rd.n, !.remote_nonce = rd.payload,
                               !.reads = Append(@, msg.n)]
         IN  IF is_handshake_finished(rd.n)
             THEN [st |-> [st1 EXCEPT !.at = "transport"], out |-> <<>>]
             ELSE LET wr == write_message(is_initiator, rd.n,
                                          st.local_nonce) IN
                  IF ~wr.ok
                  THEN [st |-> [st1 EXCEPT !.at = "panicked"], out |-> <<>>]
                  ELSE [st  |-> [st1 EXCEPT
                                    !.noise = wr.n,
                                    !.sent = Append(@, wr.msg.n),
                                    !.at = IF is_handshake_finished(wr.n)
                                           THEN "transport" ELSE "loop"],
                        out |-> <<wr.msg>>]

FrameInit ==
    /\ wire = <<>>
    /\ wclosed = FALSE
    /\ res = NoResult
    /\ nwrites = 0
    /\ nrecvs = 0
    /\ shake = [p \in {"I", "R"} |-> NewTask]
    /\ hnet = [p \in {"I", "R"} |-> <<>>]

\* send, lines 158-167: write_all(with_delimiter(buf)), flush.
send(buf) ==
    /\ ~wclosed
    /\ nwrites < MaxWrites
    /\ wire' = BCat(wire, with_delimiter(buf))
    /\ nwrites' = nwrites + 1
    /\ UNCHANGED <<wclosed, res, nrecvs, pvars, nvars>>

\* One byte written outside send: Protocol::ping's zero byte, or any byte
\* of a peer that does not frame its output with send.
write_byte(v) ==
    /\ ~wclosed
    /\ nwrites < MaxWrites
    /\ wire' = BCat(wire, Rep(v, 1))
    /\ nwrites' = nwrites + 1
    /\ UNCHANGED <<wclosed, res, nrecvs, pvars, nvars>>

\* The writer's end of the stream is dropped.
close_writer ==
    /\ ~wclosed
    /\ wclosed' = TRUE
    /\ UNCHANGED <<wire, res, nwrites, nrecvs, pvars, nvars>>

\* One call of recv that returns.  Every caller unwraps the result
\* (lines 72, 125, 130), so no recv follows one that failed.
recv_call ==
    LET r == recv(wire, wclosed) IN
    /\ res.st \in {"none", "ok"}
    /\ nrecvs < MaxRecvs
    /\ r.st # "pending"
    /\ nrecvs' = nrecvs + 1
    /\ res' = [st |-> r.st, msg |-> r.msg]
    /\ wire' = r.rest
    /\ UNCHANGED <<wclosed, nwrites, pvars, nvars>>

FrameNext ==
    \/ \E b \in Payloads : send(b)
    \/ \E v \in RawBytes : write_byte(v)
    \/ close_writer
    \/ recv_call


(***************************************************************************)
(* Claims about the framing.                                               *)
(***************************************************************************)
\* A step in which a call of recv returned.
RecvReturned == nrecvs' = nrecvs + 1

\* The bytes the step consumed.
Consumed == BLen(wire) - BLen(wire')

\* C4: whenever the unread bytes start with a length prefix whose value
\* exceeds MAX_MESSAGE_SIZE (the prefix with_delimiter writes for a payload
\* of more than 65535 bytes, such as varint(70000)), recv fails with the
\* oversized error having consumed no byte beyond the prefix; and recv never
\* returns a payload of more than 65535 bytes.
C4_OversizedRejected ==
    [][RecvReturned =>
         /\ \A b \in Payloads :
               (BLen(b) > MAX_MESSAGE_SIZE /\ IsBPrefix(with_delimiter(b), wire))
               => /\ res'.st = "err_toolong"
                  /\ Consumed <= varint_length(BLen(b))
         /\ res'.st = "ok" => BLen(res'.msg) <= MAX_MESSAGE_SIZE
      ]_fvars

\* C5 as stated: for every b with 0 <= |b| <= 65535, recv applied to
\* with_delimiter(b) returns exactly b and consumes exactly those bytes.
C5_RoundTripFromZero ==
    [][RecvReturned =>
         \A b \in Payloads :
            (BLen(b) <= MAX_MESSAGE_SIZE /\ IsBPrefix(with_delimiter(b), wire))
            => /\ res'.st = "ok"
               /\ res'.msg = b
               /\ wire' = BDrop(wire, BLen(with_delimiter(b)))
      ]_fvars

\* C5 amended: for every b with 1 <= |b| <= 65535, recv applied to
\* with_delimiter(b) returns exactly b and consumes exactly those bytes.
\* (with_delimiter of the empty payload is the single byte 0, which recv
\* skips as a keepalive ping.)
C5_RoundTrip ==
    [][RecvReturned =>
         \A b \in Payloads :
            (/\ 1 <= BLen(b)
             /\ BLen(b) <= MAX_MESSAGE_SIZE
             /\ IsBPrefix(with_delimiter(b), wire))
            => /\ res'.st = "ok"
               /\ res'.msg = b
               /\ wire' = BDrop(wire, BLen(with_delimiter(b)))
      ]_fvars

\* C5 witness: a payload of the largest admitted length was sent, and recv
\* returned it, leaving the frame that was sent behind it unread.
C5_Witness ==
    /\ res.st = "ok"
    /\ res.msg = Rep(200, MAX_MESSAGE_SIZE)
    /\ nrecvs = 1
    /\ wire = with_delimiter(Rep(1, 128))

(***************************************************************************)
(* protocol.rs: data.                                                      *)
(***************************************************************************)
Peers == {"I", "R"}          \* the initiator and the responder
Other(p) == IF p = "I" THEN "R" ELSE "I"

Keys == {1, 2}               \* channel keys
NoKey == 0
NoId == -1                   \* Option<usize>::None for a channel id
NoCap == 0                   \* Option<Vec<u8>>::None for a capability
NoHandshake == -1            \* Option<...>::None for handshake values

\* util::discovery_key: a fixed one-to-one hash of the key.
discovery_key(key) == key + 100
DKeys == {discovery_key(k) : k \in Keys}

\* The handshake hash both ends of one session derive.
SessionHash == 7

\* Events (lines 26-30) and results of next().
EvHandshake == [e |-> "Handshake", d |-> 0]
EvDiscoveryKey(d) == [e |-> "DiscoveryKey", d |-> d]
EvChannel(d) == [e |-> "Channel", d |-> d]
Ok(ev) == [k |-> "event", e |-> ev.e, d |-> ev.d]
Err(kind) == [k |-> "err", e |-> kind, d |-> 0]
NoRet == [k |-> "none", e |-> "", d |-> 0]

\* What travels on the transport: a handshake flight, a wire message
\* (channel, message) or the keepalive byte.
HsFrame(n) == [t |-> "hs", n |-> n]
MsgFrame(ch, msg) == [t |-> "msg", channel |-> ch, message |-> msg]
PingByte == [t |-> "ping"]
MsgOpen(d, cap) == [typ |-> "Open", discovery_key |-> d, capability |-> cap]

\* Close {discovery_key: Option}, and an application message (any other
\* type), told apart by a number n.
NoDKey == 0
MsgClose(dopt) == [typ |-> "Close", discovery_key |-> dopt]
MsgData(n) == [typ |-> "Data", n |-> n]

(***************************************************************************)
(* crate::channels::Channelizer.  c is the table of channel records by     *)
(* discovery key, nid the next local id.                                   *)
(***************************************************************************)
\* inbound_tx is the sender of a handle's inbound queue: the number of the
\* handle it feeds, NoHandle for None.
NoHandle == 0
NoRecord == [present |-> FALSE, key |-> NoKey, local_id |-> NoId,
             remote_id |-> NoId, remote_capability |-> NoCap,
             inbound_tx |-> NoHandle]

Channelizer_new == [c |-> [d \in DKeys |-> NoRecord], nid |-> 0]

\* attach_local(key): the record's key and local id; the existing id when
\* the key was attached before, the next id otherwise.
attach_local_id(cz, key) ==
    LET r == cz.c[discovery_key(key)] IN
    IF r.local_id # NoId THEN r.local_id ELSE cz.nid

attach_local(cz, key) ==
    LET d == discovery_key(key)
        r == cz.c[d]
    IN  IF r.local_id # NoId
        THEN [cz EXCEPT !.c[d].present = TRUE, !.c[d].key = key]
        ELSE [c   |-> [cz.c EXCEPT ![d].present = TRUE, ![d].key = key,
                                   ![d].local_id = cz.nid],
              nid |-> cz.nid + 1]

\* attach_remote(dkey, remote_id, capability)
attach_remote(cz, d, rid, cap) ==
    [cz EXCEPT !.c[d].present = TRUE, !.c[d].remote_id = rid,
               !.c[d].remote_capability = cap]

\* get_key(dkey)
get_key(cz, d) == cz.c[d].key

\* open(dkey, inbound_tx): installs the sender of the handle's inbound queue.
Channelizer_open(cz, d, h) == [cz EXCEPT !.c[d].inbound_tx = h]

\* get_remote(remote_id): the discovery keys of the records with that
\* remote id.
get_remote(cz, rid) ==
    {d \in DKeys : cz.c[d].present /\ cz.c[d].remote_id = rid}

\* remove(dkey): the record goes, with its three index entries.
remove(cz, d) == [cz EXCEPT !.c[d] = NoRecord]

\* forward(remote_id, message): the inbound sender of the record with that
\* remote id; none when there is no such record or it has no sender.
forward_target(cz, rid) ==
    {d \in get_remote(cz, rid) : cz.c[d].inbound_tx # NoHandle}

(***************************************************************************)
(* crate::handshake::Handshake.  A Handshake is the number of flights it   *)
(* has written or read: Noise XX has three, written by the initiator, the  *)
(* responder, the initiator.                                               *)
(***************************************************************************)
\* Handshake::new then start(): the initiator writes flight 1.
Handshake_start(is_initiator) ==
    IF is_initiator THEN [h |-> 1, buf |-> <<HsFrame(1)>>]
    ELSE [h |-> 0, buf |-> <<>>]

\* read(buf): the next flight of the pattern is accepted and answered;
\* anything else is a Noise error.
Handshake_read(h, frame) ==
    IF frame.t # "hs" \/ frame.n # h + 1 \/ h >= 3
    THEN [ok |-> FALSE, h |-> h, buf |-> <<>>]
    ELSE IF frame.n = 3
         THEN [ok |-> TRUE, h |-> 3, buf |-> <<>>]
         ELSE [ok |-> TRUE, h |-> frame.n + 1, buf |-> <<HsFrame(frame.n + 1)>>]

Handshake_complete(h) == h = 3

\* HandshakeResult::capability(key): a MAC of the key under the handshake
\* hash.
HandshakeResult_capability(hash, key) == hash * 10 + key

\* HandshakeResult::verify_remote_capability: recomputes and compares.
HandshakeResult_verify(hash, cap, key) ==
    cap = HandshakeResult_capability(hash, key)

(***************************************************************************)
(* protocol.rs: Protocol.  A method is an operator from the fields s       *)
(* (self) to a record holding the fields afterwards (s), the frames it     *)
(* wrote to the transport (wr) and its result (r: NoRet for Ok(None) or    *)
(* Ok(()), Ok(event), Err(kind)).                                          *)
(***************************************************************************)
\* Protocol::new, lines 197-217.
Protocol_new(is_initiator, noise, encrypted) ==
    [is_initiator |-> is_initiator, noise |-> noise, encrypted |-> encrypted,
     state        |-> "NotInitialized",
     hs           |-> NoHandshake,   \* the Handshake inside State::Handshake
     handshake    |-> NoHandshake,   \* Option<HandshakeResult>: its hash
     channels     |-> Channelizer_new,
     error        |-> "",
     outbound_rx  |-> <<>>,          \* local id of each handle's send stream
     handles      |-> <<>>,          \* the queues of each handle, as created
     control_rx   |-> <<>>,
     messages     |-> <<>>,
     events       |-> <<>>,
     keepalive    |-> FALSE,         \* self.keepalive is Some
     reader_up    |-> FALSE,         \* reader / writer upgraded to the cipher
     writer_up    |-> FALSE]

Done(s, wr, r) == [s |-> s, wr |-> wr, r |-> r]

\* init that builds the handshake and writes its first flight whatever the
\* state is.
init_unguarded(s) ==
    IF s.noise
    THEN LET h == Handshake_start(s.is_initiator) IN
         Done([s EXCEPT !.state = "Handshake", !.hs = h.h,
                        !.keepalive = TRUE], h.buf, NoRet)
    ELSE Done([s EXCEPT !.state = "Established", !.keepalive = TRUE],
              <<>>, NoRet)

\* init, lines 219-240 (reset_keepalive, lines 242-245, included).
init(s) ==
    IF s.state # "NotInitialized" THEN Done(s, <<>>, NoRet)
    ELSE IF s.noise
    THEN LET h == Handshake_start(s.is_initiator) IN
         Done([s EXCEPT !.state = "Handshake", !.hs = h.h,
                        !.keepalive = TRUE], h.buf, NoRet)
    ELSE Done([s EXCEPT !.state = "Established", !.keepalive = TRUE],
              <<>>, NoRet)

\* capability, lines 472-477.
capability(s, key) ==
    IF s.handshake # NoHandshake
    THEN HandshakeResult_capability(s.handshake, key)
    ELSE NoCap

\* verify_remote_capability that accepts whatever capability was announced.
verify_accept_all(s, cap, key) == TRUE

\* verify_remote_capability, lines 479-487: TRUE for Ok(()), FALSE for
\* Err(PermissionDenied).
verify_remote_capability(s, cap, key) ==
    IF s.handshake # NoHandshake
    THEN HandshakeResult_verify(s.handshake, cap, key)
    ELSE FALSE

\* The two queues made by create_channel (lines 391-392) and the Channel
\* that owns the user's ends: what was pushed on the send queue and not yet
\* taken by the engine, what the engine pushed on the receive queue, and
\* whether the user has dropped the Channel.
NewHandle(id, d) ==
    [id |-> id, discovery_key |-> d, send_q |-> <<>>, recv_q |-> <<>>,
     dropped |-> FALSE,
     pushed |-> <<>>]     \* every message the user pushed, in order

\* create_channel, lines 390-402: the fields afterwards.
create_channel(s, id, d) ==
    [s EXCEPT !.outbound_rx = Append(@, id),
              !.handles = Append(@, NewHandle(id, d)),
              !.channels = Channelizer_open(@, d, Len(s.handles) + 1)]

\* channels.forward(remote_id, message) as the engine sees it: the message
\* goes on the receive queue of the handle the record feeds; BrokenPipe
\* (ok FALSE) when there is no such record or sender, or the user has
\* dropped the receiving end.
forward(s, rid, msg) ==
    LET ds == forward_target(s.channels, rid) IN
    IF ds = {} THEN [ok |-> FALSE, s |-> s]
    ELSE LET d == CHOOSE x \in ds : TRUE
             h == s.channels.c[d].inbound_tx
         IN  IF s.handles[h].dropped THEN [ok |-> FALSE, s |-> s]
             ELSE [ok |-> TRUE,
                   s  |-> [s EXCEPT !.handles[h].recv_q = Append(@, msg)]]

\* send, lines 460-465: the frame written for message msg on channel ch.
Protocol_send(ch, msg) == MsgFrame(ch, msg)

\* open, lines 369-388.
open(s, key) ==
    LET d   == discovery_key(key)
        id  == attach_local_id(s.channels, key)
        s1  == [s EXCEPT !.channels = attach_local(@, key)]
        ch  == s1.channels.c[d]
        msg == MsgOpen(d, capability(s, key))
    IN  IF ch.remote_id # NoId
        THEN IF ~verify_remote_capability(s1, ch.remote_capability, key)
             THEN Done(s1, <<>>, Err("PermissionDenied"))
             ELSE LET s2 == create_channel(s1, id, d) IN
                  Done([s2 EXCEPT !.events = Append(@, EvChannel(d)),
                                  !.messages = Append(@, <<id, msg>>)],
                       <<>>, NoRet)
        ELSE Done([s1 EXCEPT !.messages = Append(@, <<id, msg>>)],
                  <<>>, NoRet)

\* on_open, lines 415-442.
on_open(s, ch, msg) ==
    LET d   == msg.discovery_key
        key == get_key(s.channels, d)
        s1  == [s EXCEPT !.channels =
                    attach_remote(@, d, ch, msg.capability)]
    IN  IF key = NoKey
        THEN Done(s1, <<>>, Ok(EvDiscoveryKey(d)))
        ELSE LET local_id == s1.channels.c[d].local_id IN
             IF ~verify_remote_capability(s1, msg.capability, key)
             THEN Done(s1, <<>>, Err("PermissionDenied"))
             ELSE LET s2 == create_channel(s1, local_id, d)
                      f  == forward(s2, ch, msg)
                  IN  IF ~f.ok
                      THEN Done(s2, <<>>, Err("BrokenPipe"))
                      ELSE Done(f.s, <<>>, Ok(EvChannel(d)))

\* on_close that looks only at the discovery key the Close carries.
on_close_keyed_only(s, ch, msg) ==
    IF msg.discovery_key # NoDKey
    THEN Done([s EXCEPT !.channels = remove(@, msg.discovery_key)],
              <<>>, NoRet)
    ELSE Done(s, <<>>, NoRet)

\* on_close, lines 404-413.
on_close(s, ch, msg) ==
    IF msg.discovery_key # NoDKey
    THEN Done([s EXCEPT !.channels = remove(@, msg.discovery_key)],
              <<>>, NoRet)
    ELSE LET ds == get_remote(s.channels, ch) IN
         IF ds = {} THEN Done(s, <<>>, NoRet)
         ELSE Done([s EXCEPT !.channels = remove(@, CHOOSE x \in ds : TRUE)],
                   <<>>, NoRet)

\* on_handshake_message that falls back to NotInitialized while the
\* handshake is incomplete.
on_handshake_message_reset(s, frame) ==
    LET rd == Handshake_read(s.hs, frame) IN
    IF ~rd.ok
    THEN Done([s EXCEPT !.hs = NoHandshake], <<>>, Err("Handshake"))
    ELSE IF Handshake_complete(rd.h)
    THEN Done([s EXCEPT !.state = "Established", !.hs = NoHandshake,
                        !.handshake = SessionHash,
                        !.reader_up = s.encrypted,
                        !.writer_up = s.encrypted],
              rd.buf, Ok(EvHandshake))
    ELSE Done([s EXCEPT !.state = "NotInitialized", !.hs = NoHandshake],
              rd.buf, NoRet)

\* on_handshake_message, lines 326-348.  on_message has taken the Handshake
\* out of the state (line 318): an error return leaves State::Handshake(None).
on_handshake_message(s, frame) ==
    LET rd == Handshake_read(s.hs, frame) IN
    IF ~rd.ok
    THEN Done([s EXCEPT !.hs = NoHandshake], <<>>, Err("Handshake"))
    ELSE IF Handshake_complete(rd.h)
    THEN Done([s EXCEPT !.state = "Established", !.hs = NoHandshake,
                        !.handshake = SessionHash,
                        !.reader_up = s.encrypted,
                        !.writer_up = s.encrypted],
              rd.buf, Ok(EvHandshake))
    ELSE Done([s EXCEPT !.state = "Handshake", !.hs = rd.h],
              rd.buf, NoRet)

\* on_proto_message, lines 350-367.  A handshake flight does not decode as
\* a wire message.
on_proto_message(s, frame) ==
    IF frame.t # "msg" THEN Done(s, <<>>, Err("Decode"))
    ELSE CASE frame.message.typ = "Open" ->
                  on_open(s, frame.channel, frame.message)
           [] frame.message.typ = "Close" ->
                  on_close(s, frame.channel, frame.message)
           [] OTHER ->
                  LET f == forward(s, frame.channel, frame.message) IN
                  IF f.ok THEN Done(f.s, <<>>, NoRet)
                  ELSE Done(s, <<>>, Err("BrokenPipe"))

\* on_message, lines 314-324: "panic" when the unwrap of line 318 or the
\* panic! of line 322 is hit.
on_message(s, frame) ==
    CASE s.state = "Handshake" /\ s.hs # NoHandshake ->
             on_handshake_message(s, frame)
      [] s.state = "Established" -> on_proto_message(s, frame)
      [] OTHER -> Done(s, <<>>, [k |-> "panic", e |-> "", d |-> 0])

\* next, lines 248-264: up to the select loop.  r is the event returned at
\* line 257, or NoRet when the loop is entered.
next_enter(s) ==
    LET i  == IF s.state = "NotInitialized" THEN init(s)
              ELSE Done(s, <<>>, NoRet)
        wr == i.wr \o [j \in 1..Len(i.s.messages) |->
                          Protocol_send(i.s.messages[j][1], i.s.messages[j][2])]
        s1 == [i.s EXCEPT !.messages = <<>>]
    IN  IF s1.events # <<>>
        THEN Done([s1 EXCEPT !.events = Tail(@)], wr, Ok(Head(s1.events)))
        ELSE Done([s1 EXCEPT !.keepalive = FALSE], wr, NoRet)

(***************************************************************************)
(* The session: two Protocol instances, each reading what the other wrote. *)
(***************************************************************************)
MaxReinits == 1     \* calls of init() per peer on an initialised Protocol
MaxOpens == 2       \* open calls per peer (Protocol::open, ProtocolStream::open)
MaxPings == 1       \* the keepalive timer fires while fewer frames than this are unread

\* KEEPALIVE_DURATION (line 24) in ticks of the clock, and a Delay that
\* does not exist (self.keepalive is None).
KeepalivePeriod == 2
NoTimer == -1

ProtoInitWith(noise) ==
    /\ proto = [p \in Peers |-> Protocol_new(p = "I", noise, TRUE)]
    /\ wrapped = [p \in Peers |-> FALSE]
    /\ pc = [p \in Peers |-> "idle"]
    /\ net = [p \in Peers |-> <<>>]
    /\ ret = [p \in Peers |-> NoRet]
    /\ seen = [p \in Peers |-> {}]
    /\ reinits = [p \in Peers |-> 0]
    /\ opened = [p \in Peers |-> <<>>]
    /\ held = [p \in Peers |-> {}]
    /\ npush = [p \in Peers |-> 0]
    /\ wrote = [p \in Peers |-> {}]
    /\ plain = [p \in Peers |-> 0]
    /\ timer = [p \in Peers |-> NoTimer]
    /\ quiet = [p \in Peers |-> 0]

\* ProtocolBuilder, lines 102-146: noise is on unless set_noise(false).
Init == FrameInit /\ \E noise \in BOOLEAN : ProtoInitWith(noise)

\* The effect on the session of peer p running a method that returned m:
\* the fields, and the frames written to the other peer's reader; nread
\* frames were taken from p's own reader.
Apply(p, m, nread) ==
    /\ proto' = [proto EXCEPT ![p] = m.s]
    /\ net' = [q \in Peers |->
                 IF q = p THEN SubSeq(net[p], nread + 1, Len(net[p]))
                 ELSE net[q] \o m.wr]
    /\ wrote' = [wrote EXCEPT ![p] =
                   @ \cup {m.wr[j].channel : j \in
                             {i \in 1..Len(m.wr) :
                                 /\ m.wr[i].t = "msg"
                                 /\ m.wr[i].message.typ = "Open"}}]
    /\ plain' = [q \in Peers |->
                   IF q = p
                   THEN IF plain[p] > nread THEN plain[p] - nread ELSE 0
                   ELSE IF proto[p].writer_up THEN plain[q]
                        ELSE plain[q] + Len(m.wr)]

\* The handles of s for discovery key d that are not among hs.
HandlesFor(s, d, hs) ==
    {h \in 1..Len(s.handles) : s.handles[h].discovery_key = d /\ h \notin hs}

\* next() returns r to p's user; a Channel event carries the oldest handle
\* of its discovery key that was not handed over yet.
Return(p, r) ==
    /\ ret' = [ret EXCEPT ![p] = r]
    /\ seen' = [seen EXCEPT ![p] =
                  IF r.k = "event" /\ r.e = "Channel" THEN @ \cup {r.d} ELSE @]
    /\ held' = [held EXCEPT ![p] =
                  IF r.k = "event" /\ r.e = "Channel"
                  THEN LET new == HandlesFor(proto'[p], r.d, held[p]) IN
                       @ \cup {h \in new : \A g \in new : h <= g}
                  ELSE @]

\* How a pass through the select loop ends (lines 295-298 and the `?`s):
\* an event is returned with the timer put back, an error is returned as
\* it is, Ok(None) loops.
AfterArm(p, m, nread) ==
    /\ Apply(p, IF m.r.k = "event" THEN [m EXCEPT !.s.keepalive = TRUE] ELSE m,
             nread)
    /\ pc' = [pc EXCEPT ![p] =
                 CASE m.r.k \in {"event", "err"} -> "idle"
                   [] m.r.k = "panic" -> "panicked"
                   [] OTHER -> "select"]
    /\ IF m.r.k \in {"event", "err"} THEN Return(p, m.r)
       ELSE UNCHANGED <<ret, seen, held>>

\* A direct call of Protocol::init.
init_call(p) ==
    /\ pc[p] = "idle" /\ ~wrapped[p]
    /\ IF proto[p].state = "NotInitialized" THEN UNCHANGED reinits
       ELSE /\ reinits[p] < MaxReinits
            /\ reinits' = [reinits EXCEPT ![p] = @ + 1]
    /\ Apply(p, init(proto[p]), 0)
    /\ timer' = [timer EXCEPT ![p] =
                   IF proto[p].state = "NotInitialized"
                   THEN KeepalivePeriod ELSE @]
    /\ UNCHANGED <<pc, ret, seen, wrapped, opened, hvars, quiet, fvars, nvars>>

\* The Delay next() goes on with (lines 248-264): the one init has just
\* armed, the one kept in self.keepalive, or a new one when there is none.
next_timer(s, m, t) ==
    IF s.state = "NotInitialized" THEN KeepalivePeriod
    ELSE IF m.r.k = "event" \/ s.keepalive THEN t
    ELSE KeepalivePeriod

\* A call of Protocol::next (by the user, or by ProtocolStream::poll_next
\* through loop_next, lines 519-526 and 561-574), up to its return at line
\* 257 or its first wait in the select loop.
next_call(p) ==
    LET m == next_enter(proto[p]) IN
    /\ pc[p] = "idle"
    /\ Apply(p, m, 0)
    /\ IF m.r.k = "event"
       THEN /\ Return(p, m.r)
            /\ UNCHANGED pc
       ELSE /\ pc' = [pc EXCEPT ![p] = "select"]
            /\ UNCHANGED <<ret, seen, held>>
    /\ timer' = [timer EXCEPT ![p] = next_timer(proto[p], m, @)]
    /\ UNCHANGED <<wrapped, reinits, opened, npush, quiet, fvars, nvars>>

\* select!, lines 270-277: the keepalive timer fired; ping() writes one
\* zero byte and the loop goes on.  The timer runs DEFAULT_KEEPALIVE
\* seconds: it fires on a line that has been quiet.
select_keepalive(p) ==
    /\ pc[p] = "select"
    /\ Len(net[Other(p)]) < MaxPings
    /\ net' = [net EXCEPT ![Other(p)] = Append(@, PingByte)]
    /\ plain' = [plain EXCEPT ![Other(p)] =
                   IF proto[p].writer_up THEN @ ELSE @ + 1]
    /\ timer' = [timer EXCEPT ![p] = KeepalivePeriod]
    /\ UNCHANGED <<proto, pc, ret, seen, wrapped, reinits, opened, hvars,
                   quiet, wrote,
                   fvars, nvars>>

\* The reader stream, polled by select!, skips a keepalive byte in front of
\* a frame.
reader_skip(p) ==
    /\ pc[p] = "select"
    /\ net[p] # <<>> /\ Head(net[p]) = PingByte
    /\ net' = [net EXCEPT ![p] = Tail(@)]
    /\ plain' = [plain EXCEPT ![p] = IF @ > 0 THEN @ - 1 ELSE 0]
    /\ UNCHANGED <<proto, pc, ret, seen, wrapped, reinits, opened, hvars,
                   tvars, wrote,
                   fvars, nvars>>

\* select!, lines 278-281: the reader yields a frame; on_message.
select_reader(p) ==
    /\ pc[p] = "select"
    /\ net[p] # <<>> /\ Head(net[p]) # PingByte
    /\ AfterArm(p, on_message(proto[p], Head(net[p])), 1)
    /\ quiet' = [quiet EXCEPT ![p] = 0]
    /\ UNCHANGED <<wrapped, reinits, opened, npush, timer, fvars, nvars>>

\* select!, lines 286-293: a ControlEvent::Open(key) from the control
\* queue; open(key), then the loop goes on.
select_control(p) ==
    /\ pc[p] = "select"
    /\ proto[p].control_rx # <<>>
    /\ LET key == Head(proto[p].control_rx)
           m   == open([proto[p] EXCEPT !.control_rx = Tail(@)], key)
       IN  AfterArm(p, m, 0)
    /\ UNCHANGED <<wrapped, reinits, opened, npush, tvars, fvars, nvars>>

\* A direct call of Protocol::open(key), between two calls of next().  A
\* peer opens a key once.
open_call(p, key) ==
    /\ pc[p] = "idle" /\ ~wrapped[p]
    /\ Len(opened[p]) < MaxOpens
    /\ \A j \in 1..Len(opened[p]) : opened[p][j] # key
    /\ opened' = [opened EXCEPT ![p] = Append(@, key)]
    /\ Apply(p, open(proto[p], key), 0)
    /\ UNCHANGED <<pc, ret, seen, wrapped, reinits, hvars, tvars, fvars, nvars>>

\* into_stream, lines 489-492, called on a Protocol that has not started.
into_stream(p) ==
    /\ pc[p] = "idle" /\ ~wrapped[p]
    /\ proto[p].state = "NotInitialized"
    /\ wrapped' = [wrapped EXCEPT ![p] = TRUE]
    /\ UNCHANGED <<proto, pc, net, ret, seen, reinits, opened, hvars, tvars,
                   wrote, plain,
                   fvars, nvars>>

\* ProtocolStream::open, lines 547-552: the key goes on the control queue.
stream_open(p, key) ==
    /\ wrapped[p]
    /\ Len(opened[p]) < MaxOpens
    /\ \A j \in 1..Len(opened[p]) : opened[p][j] # key
    /\ opened' = [opened EXCEPT ![p] = Append(@, key)]
    /\ proto' = [proto EXCEPT ![p].control_rx = Append(@, key)]
    /\ UNCHANGED <<wrapped, pc, net, ret, seen, reinits, hvars, tvars, wrote,
                   plain,
                   fvars, nvars>>

\* destroy, lines 310-312.
destroy(p) ==
    /\ pc[p] = "idle" /\ ~wrapped[p]
    /\ proto' = [proto EXCEPT ![p].error = "destroyed"]
    /\ UNCHANGED <<wrapped, pc, net, ret, seen, reinits, opened, hvars, tvars,
                   wrote, plain,
                   fvars, nvars>>

Next ==
    \/ \E p \in Peers : init_call(p)
    \/ \E p \in Peers : next_call(p)
    \/ \E p \in Peers : select_keepalive(p)
    \/ \E p \in Peers : reader_skip(p)
    \/ \E p \in Peers : select_reader(p)
    \/ \E p \in Peers : select_control(p)
    \/ \E p \in Peers, key \in Keys : open_call(p, key)
    \/ \E p \in Peers : into_stream(p)
    \/ \E p \in Peers, key \in Keys : stream_open(p, key)
    \/ \E p \in Peers : destroy(p)

Spec == Init /\ [][Next]_vars

(***************************************************************************)
(* An established session with the Noise handshake, used as the claims     *)
(* about rendezvous describe it: keys are opened once the handshake is     *)
(* done, nobody destroys the session, every task keeps running.            *)
(***************************************************************************)
\* The session as built by ProtocolBuilder::new: noise and encryption on.
FrameStart == FrameInit /\ ProtoInitWith(TRUE)

open_established(p, key) ==
    /\ proto[p].state = "Established"
    /\ open_call(p, key)

stream_open_established(p, key) ==
    /\ proto[p].state = "Established"
    /\ stream_open(p, key)

LiveNext ==
    \/ \E p \in Peers : next_call(p)
    \/ \E p \in Peers : select_keepalive(p)
    \/ \E p \in Peers : reader_skip(p)
    \/ \E p \in Peers : select_reader(p)
    \/ \E p \in Peers : select_control(p)
    \/ \E p \in Peers, key \in Keys : open_established(p, key)
    \/ \E p \in Peers : into_stream(p)
    \/ \E p \in Peers, key \in Keys : stream_open_established(p, key)

\* Both users keep polling next(); inside next(), select! takes an arm
\* that stays ready; the timer elapses.
LiveFairness ==
    \A p \in Peers :
        /\ WF_vars(next_call(p))
        /\ WF_vars(select_reader(p))
        /\ WF_vars(reader_skip(p))
        /\ WF_vars(select_control(p))
        /\ WF_vars(select_keepalive(p))

LiveSpec == FrameStart /\ [][LiveNext]_vars /\ LiveFairness

(***************************************************************************)
(* Channel traffic: the users push messages on the handles next() gave     *)
(* them and drop handles; the engine takes the messages off the send       *)
(* queues inside next().                                                   *)
(***************************************************************************)
MaxSends == 2       \* messages the two users push on their handles
MaxReopens == 1     \* calls of open with a key the caller opened before

\* The number of calls in the sequence of opened keys ks that repeat a key.
Repeats(ks) == Len(ks) - Cardinality({ks[j] : j \in 1..Len(ks)})

\* What a user pushes: the next application message, or a Close naming a
\* discovery key or none.
NextData(p) == MsgData(npush[p] + 1)
Closes == {MsgClose(d) : d \in DKeys \cup {NoDKey}}

\* Channel::send, lines 68-70: msg goes on the handle's send queue.  The
\* user's task runs while next() waits.
handle_send(p, h, msg) ==
    /\ pc[p] = "select"
    /\ h \in held[p] /\ ~proto[p].handles[h].dropped
    /\ npush["I"] + npush["R"] < MaxSends
    /\ npush' = [npush EXCEPT ![p] = @ + 1]
    /\ proto' = [proto EXCEPT ![p].handles[h].send_q = Append(@, msg),
                              ![p].handles[h].pushed = Append(@, msg)]
    /\ UNCHANGED <<wrapped, pc, net, ret, seen, reinits, opened, held, tvars,
                   wrote, plain,
                   fvars, nvars>>

\* The user drops a Channel (lines 45-49): both of its queue ends go.  A
\* handle is dropped in a session.
handle_drop(p, h) ==
    /\ pc[p] = "select"
    /\ h \in held[p]
    /\ \A q \in Peers : \A g \in held[q] : ~proto[q].handles[g].dropped
    /\ proto' = [proto EXCEPT ![p].handles[h].dropped = TRUE]
    /\ UNCHANGED <<wrapped, pc, net, ret, seen, reinits, opened, hvars, tvars,
                   wrote, plain,
                   fvars, nvars>>

\* select!, lines 282-285: a send queue yields (id, message); send, and the
\* loop goes on.
select_outbound(p) ==
    /\ pc[p] = "select"
    /\ \E h \in 1..Len(proto[p].handles) :
          /\ proto[p].handles[h].send_q # <<>>
          /\ LET msg == Head(proto[p].handles[h].send_q)
                 s1  == [proto[p] EXCEPT !.handles[h].send_q = Tail(@)]
             IN  AfterArm(p, Done(s1, <<Protocol_send(proto[p].outbound_rx[h],
                                                     msg)>>, NoRet), 0)
    /\ UNCHANGED <<wrapped, reinits, opened, npush, tvars, fvars, nvars>>

\* Protocol::open(key) called again with a key this peer opened before.
reopen_call(p, key) ==
    /\ pc[p] = "idle" /\ ~wrapped[p]
    /\ \E j \in 1..Len(opened[p]) : opened[p][j] = key
    /\ Repeats(opened["I"]) + Repeats(opened["R"]) < MaxReopens
    /\ opened' = [opened EXCEPT ![p] = Append(@, key)]
    /\ Apply(p, open(proto[p], key), 0)
    /\ UNCHANGED <<pc, ret, seen, wrapped, reinits, hvars, tvars, fvars, nvars>>

\* Two peers that open keys, exchange application messages and drop a
\* handle.
ChanNext ==
    \/ \E p \in Peers : next_call(p)
    \/ \E p \in Peers : select_reader(p)
    \/ \E p \in Peers : select_outbound(p)
    \/ \E p \in Peers, key \in Keys : open_call(p, key)
    \/ \E p \in Peers : \E h \in held[p] : handle_send(p, h, NextData(p))
    \/ \E p \in Peers : \E h \in held[p] : handle_drop(p, h)

ChanSpec == FrameStart /\ [][ChanNext]_vars

\* Two peers that open keys, one of them a second time, and exchange
\* application messages.
ReopenNext ==
    \/ \E p \in Peers : next_call(p)
    \/ \E p \in Peers : select_reader(p)
    \/ \E p \in Peers : select_outbound(p)
    \/ \E p \in Peers, key \in Keys : open_call(p, key)
    \/ \E p \in Peers, key \in Keys : reopen_call(p, key)
    \/ \E p \in Peers : \E h \in held[p] : handle_send(p, h, NextData(p))

ReopenSpec == FrameStart /\ [][ReopenNext]_vars

\* ProtocolStream::open(key) called again with a key this peer opened
\* before: the key goes on the control queue once more.
stream_reopen(p, key) ==
    /\ wrapped[p]
    /\ \E j \in 1..Len(opened[p]) : opened[p][j] = key
    /\ Repeats(opened["I"]) + Repeats(opened["R"]) < MaxReopens
    /\ opened' = [opened EXCEPT ![p] = Append(@, key)]
    /\ proto' = [proto EXCEPT ![p].control_rx = Append(@, key)]
    /\ UNCHANGED <<wrapped, pc, net, ret, seen, reinits, hvars, tvars, wrote,
                   plain,
                   fvars, nvars>>

\* Two peers, either of them possibly wrapped in a ProtocolStream, that
\* open keys directly or through the control queue and exchange application
\* messages.
StreamNext ==
    \/ \E p \in Peers : next_call(p)
    \/ \E p \in Peers : select_reader(p)
    \/ \E p \in Peers : select_outbound(p)
    \/ \E p \in Peers : select_control(p)
    \/ \E p \in Peers, key \in Keys : open_call(p, key)
    \/ \E p \in Peers : into_stream(p)
    \/ \E p \in Peers, key \in Keys : stream_open(p, key)
    \/ \E p \in Peers, key \in Keys : stream_reopen(p, key)
    \/ \E p \in Peers : \E h \in held[p] : handle_send(p, h, NextData(p))

StreamSpec == FrameStart /\ [][StreamNext]_vars

\* Two peers that open keys and push Close and application messages on
\* their handles.
CloseNext ==
    \/ \E p \in Peers : next_call(p)
    \/ \E p \in Peers : select_reader(p)
    \/ \E p \in Peers : select_outbound(p)
    \/ \E p \in Peers, key \in Keys : open_call(p, key)
    \/ \E p \in Peers : \E h \in held[p] : \E c \in Closes \cup {NextData(p)} :
          handle_send(p, h, c)

CloseSpec == FrameStart /\ [][CloseNext]_vars

(***************************************************************************)
(* The keepalive timer against a clock.  A Delay counts down whether or    *)
(* not its owner is inside next(); its arm of select! is ready once it has *)
(* counted down to zero.                                                   *)
(***************************************************************************)
\* One tick of the clock.
tick ==
    /\ timer' = [p \in Peers |-> IF timer[p] > 0 THEN timer[p] - 1
                                 ELSE timer[p]]
    /\ quiet' = [p \in Peers |-> IF quiet[p] < KeepalivePeriod
                                 THEN quiet[p] + 1 ELSE quiet[p]]
    /\ UNCHANGED <<proto, wrapped, pc, net, ret, seen, reinits, opened,
                   hvars, wrote, plain, fvars, nvars>>

\* select!, lines 270-277, with the clock: the keepalive arm is taken when
\* the Delay has elapsed.
keepalive_elapsed(p) == timer[p] = 0 /\ select_keepalive(p)

TimerNext ==
    \/ \E p \in Peers : next_call(p)
    \/ \E p \in Peers : keepalive_elapsed(p)
    \/ \E p \in Peers : reader_skip(p)
    \/ \E p \in Peers : select_reader(p)
    \/ \E p \in Peers, key \in Keys : open_call(p, key)
    \/ tick

TimerSpec == FrameStart /\ [][TimerNext]_vars

(***************************************************************************)
(* The handshake on its own: handshake() of noise.rs run by one task per   *)
(* end of a stream, and two Protocol instances that are only polled.       *)
(***************************************************************************)
\* The task's effect: its locals, and what it sent to the other end.
Shaken(p, m) ==
    /\ shake' = [shake EXCEPT ![p] = m.st]
    /\ hnet' = [hnet EXCEPT ![Other(p)] = @ \o m.out]

\* handshake() is called: lines 39-67, up to the first recv.
handshake_begin(p, nonce) ==
    /\ shake[p].at = "new"
    /\ Shaken(p, handshake_first(shake[p], p = "I", nonce))
    /\ UNCHANGED <<fvars, pvars>>

\* recv returns a message inside the loop: one turn, lines 71-92.
handshake_recv(p) ==
    /\ shake[p].at = "loop" /\ hnet[p] # <<>>
    /\ LET m == handshake_turn(shake[p], p = "I", Head(hnet[p])) IN
       /\ shake' = [shake EXCEPT ![p] = m.st]
       /\ hnet' = [hnet EXCEPT ![p] = Tail(@), ![Other(p)] = @ \o m.out]
    /\ UNCHANGED <<fvars, pvars>>

\* Lines 111-122: out of the loop, the initiator sends two transport
\* messages and returns.
transport_send(p) ==
    /\ shake[p].at = "transport" /\ p = "I"
    /\ shake' = [shake EXCEPT ![p].at = "done"]
    /\ hnet' = [hnet EXCEPT ![Other(p)] = @ \o <<Transport(1), Transport(2)>>]
    /\ UNCHANGED <<fvars, pvars>>

\* Lines 123-134: out of the loop, the responder receives two transport
\* messages and returns; anything else fails to decrypt (unwrap).
transport_recv(p) ==
    /\ shake[p].at = "transport" /\ p = "R" /\ hnet[p] # <<>>
    /\ shake' = [shake EXCEPT
                    ![p].got = IF Head(hnet[p]).t = "transport"
                               THEN @ + 1 ELSE @,
                    ![p].at = IF Head(hnet[p]).t # "transport"
                              THEN "panicked"
                              ELSE IF shake[p].got + 1 = 2 THEN "done"
                              ELSE "transport"]
    /\ hnet' = [hnet EXCEPT ![p] = Tail(@)]
    /\ UNCHANGED <<fvars, pvars>>

HandshakeNext ==
    \/ \E p \in Peers, nonce \in Nonces : handshake_begin(p, nonce)
    \/ \E p \in Peers : handshake_recv(p)
    \/ \E p \in Peers : transport_send(p)
    \/ \E p \in Peers : transport_recv(p)
    \/ \E p \in Peers : next_call(p)
    \/ \E p \in Peers : select_reader(p)

\* Every task keeps running, and the stream delivers what was written.
HandshakeFairness ==
    \A p \in Peers :
        /\ WF_vars(\E nonce \in Nonces : handshake_begin(p, nonce))
        /\ WF_vars(handshake_recv(p))
        /\ WF_vars(transport_send(p))
        /\ WF_vars(transport_recv(p))
        /\ WF_vars(next_call(p))
        /\ WF_vars(select_reader(p))

HandshakeSpec ==
    FrameStart /\ [][HandshakeNext]_vars /\ HandshakeFairness

\* The framing on its own: the two Protocol instances stay as constructed.
SpecFrame == FrameStart /\ [][FrameNext]_vars

(***************************************************************************)
(* Claims about the protocol engine.                                       *)
(***************************************************************************)
Rec(p, d) == proto[p].channels.c[d]

\* The step is a return of next() at peer p: out of the select loop, or at
\* line 257 with a queued event.
Returned(p) ==
    \/ pc[p] = "select" /\ pc'[p] = "idle"
    \/ pc[p] = "idle" /\ pc'[p] = "idle"
       /\ Len(proto'[p].events) < Len(proto[p].events)

\* The step runs Protocol::open(key) at peer p: called directly, or taken
\* off the control queue inside next().
LocalOpen(p, key) ==
    \/ ~wrapped[p] /\ opened'[p] = Append(opened[p], key)
    \/ /\ proto[p].control_rx # <<>> /\ Head(proto[p].control_rx) = key
       /\ proto'[p].control_rx = Tail(proto[p].control_rx)

\* The step handles an inbound Open for discovery key d at peer p.
InboundOpen(p, d) ==
    /\ pc[p] = "select" /\ proto[p].state = "Established"
    /\ net[p] # <<>> /\ Head(net[p]).t = "msg"
    /\ Head(net[p]).message.typ = "Open"
    /\ Head(net[p]).message.discovery_key = d
    /\ net'[p] = Tail(net[p])

\* The step produces a Channel event for d at peer p: pushed on the event
\* queue by open, or returned by next() from on_open.
ChannelProduced(p, d) ==
    \/ /\ Len(proto'[p].events) > Len(proto[p].events)
       /\ proto'[p].events[Len(proto'[p].events)] = EvChannel(d)
    \/ /\ pc[p] = "select" /\ pc'[p] = "idle"
       /\ ret'[p] = Ok(EvChannel(d))

\* Peer p has opened key: the call is queued or has run.
HasOpened(p, key) ==
    \/ \E j \in 1..Len(proto[p].control_rx) : proto[p].control_rx[j] = key
    \/ Rec(p, discovery_key(key)).key = key

\* C1: in an established session, once both peers have opened the same key
\* (through Protocol::open or through ProtocolStream::open), each peer's
\* next() eventually returns a Channel event for the key's discovery key.
C1_RendezvousCompletes ==
    \A key \in Keys : \A p \in Peers :
        (HasOpened("I", key) /\ HasOpened("R", key))
            ~> (discovery_key(key) \in seen[p])

\* The step belongs to a call of next() at peer p.
NextStep(p) == pc[p] = "select" \/ pc'[p] = "select" \/ Returned(p)

\* C2: once destroy(error) has been called, every step of a later call of
\* next() is a return of that error: the call does not wait in the event
\* loop, reads no frame and writes nothing.
C2_DestroySticky ==
    [][\A p \in Peers :
          (proto[p].error # "" /\ NextStep(p)) =>
             /\ Returned(p) /\ ret'[p] = Err(proto[p].error)
             /\ net' = net
      ]_vars

\* C3: once next() has returned an error, no later call of next() returns
\* anything, event or error.
C3_ErrorTerminates ==
    [][\A p \in Peers : ret[p].k = "err" => ~Returned(p)]_vars

\* C6: no step takes a Protocol's state backwards along
\* NotInitialized -> Handshake -> Established.
StateRank(st) ==
    CASE st = "NotInitialized" -> 0
      [] st = "Handshake" -> 1
      [] st = "Established" -> 2

C6_StateForward ==
    [][\A p \in Peers :
          StateRank(proto'[p].state) >= StateRank(proto[p].state)]_vars

\* C6 witness: the responder went through the handshake and is Established.
C6_Witness ==
    /\ proto["R"].state = "Established"
    /\ proto["R"].handshake # NoHandshake
    /\ proto["I"].state = "Established"

\* The number of first handshake flights among the frames fs.
FirstFlights(fs) == Cardinality({j \in 1..Len(fs) : fs[j] = HsFrame(1)})

\* C7: a call of init() on an initialised Protocol changes none of its
\* fields and writes nothing; and no step of an initialised Protocol
\* (next() included) writes the first handshake flight again.
C7_InitIdempotent ==
    [][\A p \in Peers :
          proto[p].state # "NotInitialized" =>
             /\ reinits'[p] # reinits[p] => (proto'[p] = proto[p] /\ net' = net)
             /\ FirstFlights(net'[Other(p)]) <= FirstFlights(net[Other(p)])
      ]_vars

\* C7 witness: init() was called on the initiator after it had written
\* its first flight, which is still the only frame in transit.
C7_Witness ==
    /\ reinits["I"] = 1
    /\ proto["I"].state = "Handshake"
    /\ net["R"] = <<HsFrame(1)>>

\* C8: with noise=false every Open written carries no capability, and a
\* local open of a key the remote has announced, like an inbound Open for a
\* locally opened key, succeeds and produces a Channel event.
C8_NoNoiseNoCapability ==
    [][\A p \in Peers :
          ~proto[p].noise =>
             /\ \A j \in 1..Len(net'[Other(p)]) :
                   net'[Other(p)][j].t = "msg"
                   => net'[Other(p)][j].message.capability = NoCap
             /\ \A key \in Keys :
                   (LocalOpen(p, key)
                    /\ Rec(p, discovery_key(key)).remote_id # NoId)
                   => ChannelProduced(p, discovery_key(key))
             /\ \A d \in DKeys :
                   (InboundOpen(p, d) /\ Rec(p, d).key # NoKey)
                   => ChannelProduced(p, d)
      ]_vars

\* The record has local id, remote id and key, and the capability stored
\* from the remote's Open is the one this session's handshake gives for
\* the key.
Paired(r) == r.local_id # NoId /\ r.remote_id # NoId /\ r.key # NoKey

Verifies(s, r) ==
    /\ s.handshake # NoHandshake
    /\ r.remote_capability = HandshakeResult_capability(s.handshake, r.key)

\* C9: a Channel event for d is produced exactly by the local opens and
\* inbound Opens after which d's record has local_id, remote_id and key
\* and its stored remote capability verifies against the key.
C9_ChannelIffPairedAndVerified ==
    [][\A p \in Peers : \A d \in DKeys :
          LET r == proto'[p].channels.c[d] IN
          /\ ChannelProduced(p, d)
             => /\ Paired(r) /\ Verifies(proto'[p], r)
                /\ (InboundOpen(p, d)
                    \/ \E key \in Keys :
                          discovery_key(key) = d /\ LocalOpen(p, key))
          /\ ((InboundOpen(p, d)
               \/ \E key \in Keys : discovery_key(key) = d /\ LocalOpen(p, key))
              /\ Paired(r) /\ Verifies(proto'[p], r))
             => ChannelProduced(p, d)
      ]_vars

\* C9 witness: the responder's next() has returned a Channel event for a
\* record that is paired and verified, while the initiator holds a record
\* of the same discovery key whose capability does not verify.
C9_Witness ==
    \E d \in DKeys :
        /\ ret["R"] = Ok(EvChannel(d))
        /\ Paired(Rec("R", d)) /\ Verifies(proto["R"], Rec("R", d))
        /\ Paired(Rec("I", d)) /\ ~Verifies(proto["I"], Rec("I", d))
        /\ d \notin seen["I"]

\* The capability a Protocol of this session puts in its Open for key once
\* the session is established.
SessionCapability(s, key) ==
    IF s.noise THEN HandshakeResult_capability(SessionHash, key) ELSE NoCap

\* C10: an inbound Open for a discovery key not opened locally makes
\* next() return DiscoveryKey(d) and produces no Channel event; a later
\* local open(k) with discovery_key(k) = d produces a Channel event for d
\* from the capability stored by that Open.
C10_RemoteFirst ==
    [][\A p \in Peers : \A key \in Keys :
          LET d == discovery_key(key) IN
          /\ (InboundOpen(p, d) /\ Rec(p, d).key = NoKey)
             => /\ Returned(p) /\ ret'[p] = Ok(EvDiscoveryKey(d))
                /\ ~ChannelProduced(p, d)
          /\ (/\ LocalOpen(p, key)
              /\ proto[p].state = "Established"
              /\ Rec(p, d).key = NoKey /\ Rec(p, d).remote_id # NoId
              /\ Rec(p, d).remote_capability = SessionCapability(proto[p], key))
             => /\ ChannelProduced(p, d)
                /\ proto'[p].channels.c[d].remote_capability
                      = Rec(p, d).remote_capability
      ]_vars

\* C16: the engine does not wait in the select loop (on the transport, the
\* send queues, the control queue or the timer) while its outbound message
\* queue or its pending event queue holds something.
C16_NoWaitWithQueued ==
    \A p \in Peers :
        pc[p] = "select" =>
            proto[p].messages = <<>> /\ proto[p].events = <<>>

\* C19: whenever the state is State::Handshake it holds a Handshake
\* (Some), also after on_handshake_message returned an error, so that the
\* unwrap of on_message cannot fail.
C19_HandshakePresent ==
    \A p \in Peers :
        /\ proto[p].state = "Handshake" => proto[p].hs # NoHandshake
        /\ pc[p] # "panicked"

\* C20: a channel handle yields application messages only: no receive
\* queue ever holds an Open or a Close.
C20_HandleYieldsDataOnly ==
    \A p \in Peers : \A h \in 1..Len(proto[p].handles) :
        \A j \in 1..Len(proto[p].handles[h].recv_q) :
            proto[p].handles[h].recv_q[j].typ \notin {"Open", "Close"}

(***************************************************************************)
(* Claims about channels and their handles.                                *)
(***************************************************************************)
\* The step creates a handle for discovery key d at peer p.
HandleCreated(p, d) ==
    /\ Len(proto'[p].handles) > Len(proto[p].handles)
    /\ proto'[p].handles[Len(proto'[p].handles)].discovery_key = d

\* C11: a handle (and with it a Channel event) is created for a discovery
\* key only while its record feeds no handle: at most one per discovery
\* key until the record is removed, whatever opens and Opens are repeated.
C11_OneHandlePerChannel ==
    [][\A p \in Peers : \A d \in DKeys :
          HandleCreated(p, d) => Rec(p, d).inbound_tx = NoHandle]_vars

\* The step is p's engine reading an application message from channel ch.
InboundData(p, ch) ==
    /\ pc[p] = "select" /\ proto[p].state = "Established"
    /\ net[p] # <<>> /\ Head(net[p]).t = "msg"
    /\ Head(net[p]).message.typ = "Data"
    /\ Head(net[p]).channel = ch
    /\ net'[p] = Tail(net[p])

\* The record of d at p feeds a handle the user has dropped.
FeedsDropped(p, d) ==
    /\ Rec(p, d).inbound_tx # NoHandle
    /\ proto[p].handles[Rec(p, d).inbound_tx].dropped

\* C13: when an application message arrives for a channel whose handle the
\* user has dropped, next() returns no error, that channel's record is
\* removed and every other record is left as it was.
C13_DroppedHandleIsLocal ==
    [][\A p \in Peers : \A d \in DKeys :
          (InboundData(p, Rec(p, d).remote_id) /\ FeedsDropped(p, d)) =>
             /\ ~(Returned(p) /\ ret'[p].k = "err")
             /\ proto'[p].channels.c[d] = NoRecord
             /\ \A e \in DKeys \ {d} :
                   proto'[p].channels.c[e] = proto[p].channels.c[e]
      ]_vars

IsData(m) == m.typ = "Data"

IsDataFrame(f) == f.t = "msg" /\ f.message.typ = "Data"

\* The application messages of the frames fs written on channel id.
DataOn(fs, id) ==
    LET Mine(f) == IsDataFrame(f) /\ f.channel = id
        sel == SelectSeq(fs, Mine)
    IN  [j \in 1..Len(sel) |-> sel[j].message]

\* Peer b has a handle for d that its record feeds and its user holds.
UsableAt(b, d) ==
    /\ Rec(b, d).inbound_tx # NoHandle
    /\ ~proto[b].handles[Rec(b, d).inbound_tx].dropped

\* The application messages peer b's handles for discovery key d hold, the
\* handles taken in the order of their creation.
RECURSIVE Yielded(_, _, _)
Yielded(b, d, n) ==
    IF n = 0 THEN <<>>
    ELSE Yielded(b, d, n - 1)
         \o (IF proto[b].handles[n].discovery_key = d
             THEN SelectSeq(proto[b].handles[n].recv_q, IsData)
             ELSE <<>>)

\* The messages of ms that are among those of the sequence pushed.
Among(ms, pushed) ==
    LET In(m) == \E i \in 1..Len(pushed) : pushed[i] = m
    IN  SelectSeq(ms, In)

\* C14: for a handle h of peer a on a channel usable at the other peer b,
\* the application messages pushed on h are, in push order: those b's
\* handles for the same discovery key hold, then those in transit with
\* channel = a's local id, then those still on h's send queue; and no
\* handle of b for another discovery key holds any of them.
C14_OrderPreserved ==
    \A a \in Peers : \A h \in 1..Len(proto[a].handles) :
        LET b  == Other(a)
            hd == proto[a].handles[h]
            d  == hd.discovery_key
        IN  UsableAt(b, d) =>
              /\ Among(Yielded(b, d, Len(proto[b].handles)), hd.pushed)
                    \o Among(DataOn(net[b], hd.id), hd.pushed)
                    \o SelectSeq(hd.send_q, IsData)
                 = SelectSeq(hd.pushed, IsData)
              /\ \A g \in 1..Len(proto[b].handles) :
                    proto[b].handles[g].discovery_key # d =>
                       \A j \in 1..Len(proto[b].handles[g].recv_q) :
                          \A i \in 1..Len(hd.pushed) :
                             proto[b].handles[g].recv_q[j] # hd.pushed[i]

\* C15: a peer writes an application frame on a channel only after it has
\* written the Open of that channel.
C15_OpenBeforeData ==
    [][\A p \in Peers :
          \A j \in (Len(net[Other(p)]) + 1)..Len(net'[Other(p)]) :
             IsDataFrame(net'[Other(p)][j])
                => net'[Other(p)][j].channel \in wrote[p]
      ]_vars

\* The step is p's engine reading a Close.
InboundClose(p) ==
    /\ pc[p] = "select" /\ proto[p].state = "Established"
    /\ net[p] # <<>> /\ Head(net[p]).t = "msg"
    /\ Head(net[p]).message.typ = "Close"
    /\ net'[p] = Tail(net[p])

\* The records an inbound Close frame f names at peer p: the one of the
\* discovery key it carries, or else the one whose remote_id is the channel
\* it arrived on.
Named(p, f) ==
    IF f.message.discovery_key # NoDKey
    THEN {f.message.discovery_key}
    ELSE {d \in DKeys : Rec(p, d).present /\ Rec(p, d).remote_id = f.channel}

\* C12: reading a Close removes the record the Close names (by discovery
\* key, or else by the channel id as remote_id), at most one, leaves every
\* other record as it was, changes nothing when no record matches, and
\* next() returns nothing: the loop goes on.
C12_CloseRemovesNamed ==
    [][\A p \in Peers :
          InboundClose(p) =>
             LET named == Named(p, Head(net[p])) IN
             /\ Cardinality(named) <= 1
             /\ proto'[p].channels.c =
                   [d \in DKeys |-> IF d \in named THEN NoRecord
                                    ELSE Rec(p, d)]
             /\ pc'[p] = "select" /\ ret'[p] = ret[p]
      ]_vars

\* C12 witness: a peer whose user holds handles for two discovery keys has
\* lost the record of one to a Close and kept the record of the other.
C12_Witness ==
    \E p \in Peers : \E g, h \in held[p] :
        LET d == proto[p].handles[g].discovery_key
            e == proto[p].handles[h].discovery_key
        IN  /\ d # e
            /\ Rec(p, d) = NoRecord
            /\ Rec(p, e).inbound_tx = h

\* The step is peer p writing a keepalive byte.
PingWritten(p) ==
    /\ Len(net'[Other(p)]) = Len(net[Other(p)]) + 1
    /\ net'[Other(p)][Len(net'[Other(p)])] = PingByte

\* C17: a peer writes a keepalive byte only when a full keepalive period
\* has passed since it last read an inbound frame, and rearms the timer
\* for a full period.
C17_PingAfterQuietPeriod ==
    [][\A p \in Peers :
          PingWritten(p) =>
             /\ quiet[p] >= KeepalivePeriod
             /\ timer'[p] = KeepalivePeriod
      ]_vars

(***************************************************************************)
(* Claims about the handshake.                                             *)
(***************************************************************************)
IsPrefix(a, b) == Len(a) <= Len(b) /\ a = SubSeq(b, 1, Len(a))

\* The flights of the handshake frames in transit to peer p's Protocol.
FlightsTo(p) == {net[p][j].n : j \in {i \in 1..Len(net[p]) : net[p][i].t = "hs"}}

\* The exchange as far as it has gone: handshake() has written and read the
\* flights in the order 1 (initiator), 2 (responder), 3 (initiator), the
\* initiator wrote before it read, the responder read before it wrote, no
\* task has panicked, and a task is out of the loop exactly when its
\* handshake is finished; the two Protocols carry flights 1 and 3 to the
\* responder and 2 to the initiator, and hold no Handshake once
\* Established.
ThreeFlights ==
    /\ \A p \in Peers : shake[p].at # "panicked"
    /\ IsPrefix(shake["I"].sent, <<1, 3>>)
    /\ IsPrefix(shake["R"].sent, <<2>>)
    /\ IsPrefix(shake["I"].reads, <<2>>)
    /\ IsPrefix(shake["R"].reads, <<1, 3>>)
    /\ shake["I"].at # "new" => shake["I"].sent # <<>>
    /\ Len(shake["R"].sent) <= Len(shake["R"].reads)
    /\ \A p \in Peers :
          is_handshake_finished(shake[p].noise)
             <=> shake[p].at \in {"transport", "done"}
    /\ FlightsTo("R") \subseteq {1, 3} /\ FlightsTo("I") \subseteq {2}
    /\ \A p \in Peers :
          /\ pc[p] # "panicked" /\ ret[p].k # "err"
          /\ proto[p].state = "Established" =>
                proto[p].hs = NoHandshake /\ FlightsTo(p) = {}

\* Both handshake() tasks have returned and both Protocols are Established.
Finished ==
    \A p \in Peers : shake[p].at = "done" /\ proto[p].state = "Established"

\* C18: the handshake is three flights, written by the initiator, the
\* responder, the initiator; each side leaves the exchange when the third
\* flight is processed and waits for no fourth; with every flight
\* delivered both sides end up finished.
C18_ThreeFlights == []ThreeFlights /\ <>[]Finished

\* C18 witness: both sides are finished, with flights 1 and 3 written by
\* the initiator, flight 2 by the responder, and each nonce received.
C18_Witness ==
    /\ Finished
    /\ shake["I"].sent = <<1, 3>> /\ shake["R"].sent = <<2>>
    /\ shake["R"].reads = <<1, 3>> /\ shake["I"].reads = <<2>>
    /\ \A p \in Peers : shake[p].remote_nonce = shake[Other(p)].local_nonce
    /\ \A p \in Peers : ret[p] = Ok(EvHandshake)

(***************************************************************************)
(* Claims about the keepalive byte inside a length prefix, the frames of   *)
(* the handshake phase, the switch to the cipher, and closed channels.     *)
(***************************************************************************)
\* The unread bytes behind the keepalive bytes in front of them.
PastPings == IF wire # <<>> /\ wire[1][1] = 0 THEN Tail(wire) ELSE wire

\* The unread bytes start, behind any keepalive bytes, with a continuation
\* byte followed by a zero byte, and the payload that prefix announces when
\* the zero byte ends it (the low seven bits of the continuation byte) is
\* all there.
ZeroEndsPrefix ==
    /\ PastPings # <<>> /\ PastPings[1][1] >= 128
    /\ BLen(PastPings) >= 2
    /\ BDrop(PastPings, 1)[1][1] = 0
    /\ BLen(PastPings) - 2 >= PastPings[1][1] % 128

\* C21: a zero byte behind a continuation byte of the length prefix is the
\* final byte of the prefix and is not skipped: recv returns the payload
\* of the length read so far and leaves the bytes behind it unread.
C21_ZeroAfterContinuationIsFinal ==
    [][(RecvReturned /\ ZeroEndsPrefix) =>
          LET len  == PastPings[1][1] % 128
              body == BDrop(PastPings, 2)
          IN  /\ res'.st = "ok"
              /\ res'.msg = BTake(body, len)
              /\ wire' = BDrop(body, len)
      ]_fvars

\* The frames peer p writes in the step.
Written(p) ==
    {net'[Other(p)][j] : j \in (Len(net[Other(p)]) + 1)..Len(net'[Other(p)])}

\* C22: in a Noise session a peer writes a data-plane frame (Open, Close,
\* application message) only while its state is Established; before that
\* it writes handshake flights and keepalive bytes only.
C22_NoDataBeforeEstablished ==
    [][\A p \in Peers :
          (proto[p].noise /\ proto[p].state # "Established") =>
             \A f \in Written(p) : f.t # "msg"
      ]_vars

\* The step is peer p's reader taking a frame or a keepalive byte off its
\* stream.
Reads(p) == pc[p] = "select" /\ net[p] # <<>> /\ net'[p] = Tail(net[p])

\* C23: what a peer wrote before its writer was upgraded to the cipher is
\* read by the other peer before that peer's reader is upgraded, and what
\* it wrote after it is read after it.
C23_SwitchAtSamePosition ==
    [][\A p \in Peers : Reads(p) => (plain[p] > 0 <=> ~proto[p].reader_up)
      ]_vars

\* Peer p's record with local id id is paired: key, local id and remote id
\* are all there.
PairedId(p, id) ==
    \E d \in DKeys :
        /\ Rec(p, d).present /\ Rec(p, d).local_id = id
        /\ Rec(p, d).key # NoKey /\ Rec(p, d).remote_id # NoId

\* C24: a peer writes an application frame only on a channel whose record
\* is paired at that time; none once a Close has removed the record.
C24_NoDataAfterClose ==
    [][\A p \in Peers : \A f \in Written(p) :
          IsDataFrame(f) => PairedId(p, f.channel)
      ]_vars

====
